---- MODULE Spec2Model ----
(***************************************************************************)
(* State-machine model of evalys/visu/legacy.py: the job identity resolver *)
(* (map_unique_numbers), the Gantt renderer (plot_gantt), the processor    *)
(* load renderer (plot_processor_load) and the series comparison renderer  *)
(* (plot_series_comparison).  Each renderer is one call on its own drawing *)
(* surface; a specification per renderer starts the call on every input of *)
(* a bounded family and runs it to its end.                                *)
(***************************************************************************)
EXTENDS Integers, Sequences, FiniteSets, TLC

VARIABLES
    pc,                      \* position of the running call
    df,                      \* the job table (jobset.df), a sequence of rows
    res_bounds,              \* jobset.res_bounds
    i,                       \* cursor of the loop over the rows, 1-based
    labels,                  \* plot_gantt parameter
    number_counter,          \* map_unique_numbers local
    numbers_map,             \* map_unique_numbers local: full_job_id -> number
    jobs_for_unique_number,  \* map_unique_numbers local: full_job_id -> indexes
    unique_numbers,          \* map_unique_numbers result
    labeled_jobs,            \* map_unique_numbers result
    artists,                 \* rectangles added to the axes, in drawing order
    annotations,             \* text annotations issued, in drawing order
    xlim,                    \* x-axis limits of the axes
    load,                    \* plot_processor_load local: proc -> load
    series,                  \* plot_series_comparison argument: <<first, second>>
    cmp_df,                  \* plot_series_comparison local df: index, y1, y2
    red,                     \* where-mask of the red fill_between
    green,                   \* where-mask of the green fill_between
    window,                  \* plot_gantt arguments <<windowStartTime, windowFinishTime>>
    args,                    \* arguments of the running call (fn names the function)
    locals,                  \* local variables of the running call
    calls                    \* draw calls issued on the axes, in order

vars == <<pc, df, res_bounds, i, labels, number_counter, numbers_map,
          jobs_for_unique_number, unique_numbers, labeled_jobs, artists,
          annotations, xlim, load, series, cmp_df, red, green,
          window, args, locals, calls>>

ganttVars == <<labels, number_counter, numbers_map, jobs_for_unique_number,
               unique_numbers, labeled_jobs, annotations>>
loadVars == <<load>>
cmpVars == <<series, cmp_df, red, green>>
callVars == <<args, locals, calls>>

-----------------------------------------------------------------------------
(* Bounds of the input families. *)

MaxRows == 4        \* rows of a job table with colliding identities
MaxGanttRows == 2   \* rows of a job table with several resource ranges
MaxProc == 2        \* resource indices are 0..MaxProc
MaxLoadJobs == 2    \* rows of a job table given to plot_processor_load
MaxTime == 2        \* sample times of a series are in 0..MaxTime
MaxJobsets == 2     \* jobsets given to one call
MaxSamples == 2     \* samples of a load series or of a machine-state series
MaxPseudoJobs == 2  \* rows of a table of pseudo-jobs

(* The absent value of an optional argument (None) is the empty sequence,   *)
(* a supplied value v is <<v>>.                                            *)
None == <<>>
Some(v) == <<v>>

-----------------------------------------------------------------------------
(* The resource interval set of a job: a set of resource indices, exposed   *)
(* as its ascending member indices and as its maximal closed ranges.       *)

Min(S) == CHOOSE m \in S : \A n \in S : m <= n
Max(S) == CHOOSE m \in S : \A n \in S : n <= m

RECURSIVE SortedSeq(_)
SortedSeq(S) == IF S = {} THEN <<>>
                ELSE <<Min(S)>> \o SortedSeq(S \ {Min(S)})

RangeEnd(S, p) == Min({q \in S : q >= p /\ (q + 1) \notin S})

Intervals(S) ==
    LET starts == SortedSeq({p \in S : (p - 1) \notin S})
    IN  [k \in 1..Len(starts) |-> <<starts[k], RangeEnd(S, starts[k])>>]

(* The index label of the row at (1-based) position k: the table carries   *)
(* the default index 0, 1, 2, ...                                          *)
Index(k) == k - 1

-----------------------------------------------------------------------------
(* map_unique_numbers *)

FullJobId(workload_name, job_id) == workload_name \o "!" \o job_id

(* One iteration of the loop over df.iterrows(). *)
MapRow ==
    /\ pc = "map"
    /\ i <= Len(df)
    /\ LET row == df[i]
           full_job_id == FullJobId(row.workload_name, row.jobID)
           known == full_job_id \in DOMAIN numbers_map
           unique_number == IF known THEN numbers_map[full_job_id]
                            ELSE number_counter
           list_of_jobs == IF known THEN jobs_for_unique_number[full_job_id]
                           ELSE <<>>
           appended == IF row.allocated_resources # {}
                       THEN Append(list_of_jobs, Index(i))
                       ELSE list_of_jobs
       IN  /\ numbers_map' = IF known THEN numbers_map
                             ELSE (full_job_id :> number_counter) @@ numbers_map
           /\ number_counter' = IF known THEN number_counter
                                ELSE number_counter + 1
           /\ jobs_for_unique_number' =
                  (full_job_id :> appended) @@ jobs_for_unique_number
           /\ unique_numbers' = Append(unique_numbers, unique_number)
    /\ i' = i + 1
    /\ UNCHANGED <<window, callVars, pc, df, res_bounds, labels, labeled_jobs, artists,
                   annotations, xlim, loadVars, cmpVars>>

MiddleJob(v) == v[(Len(v) \div 2) + 1]

(* The loop over jobs_for_unique_number.items() and the return to          *)
(* plot_gantt, which goes on to draw the rows.                             *)
MapLabels ==
    /\ pc = "map"
    /\ i > Len(df)
    /\ labeled_jobs' = {MiddleJob(jobs_for_unique_number[k]) :
                           k \in {q \in DOMAIN jobs_for_unique_number :
                                     jobs_for_unique_number[q] # <<>>}}
    /\ pc' = "plot"
    /\ i' = 1
    /\ UNCHANGED <<window, callVars, df, res_bounds, labels, number_counter, numbers_map,
                   jobs_for_unique_number, unique_numbers, artists,
                   annotations, xlim, loadVars, cmpVars>>

-----------------------------------------------------------------------------
(* plot_gantt, time_scale off, no reservation *)

(* The rectangle of one range of a job.  Heights are kept in tenths of a   *)
(* resource row, so that y1 - y0 + 0.9 is exact.                           *)
JobRectFullRow(name, job, itv) ==
    [job |-> name,
     x |-> job.starting_time,
     y |-> itv[1],
     width |-> job.execution_time,
     height10 |-> (itv[2] - itv[1]) * 10 + 10]

JobRect(name, job, itv) ==
    [job |-> name,
     x |-> job.starting_time,
     y |-> itv[1],
     width |-> job.execution_time,
     height10 |-> (itv[2] - itv[1]) * 10 + 9]

IsAnnotatedEveryJob(with_labels, name, labeled) == with_labels

IsAnnotated(with_labels, name, labeled) == with_labels /\ name \in labeled

(* plot_job on the row at the cursor. *)
PlotJob ==
    /\ pc = "plot"
    /\ i <= Len(df)
    /\ LET job == df[i]
           itvs == Intervals(job.allocated_resources)
           rects == [k \in 1..Len(itvs) |-> JobRect(Index(i), job, itvs[k])]
           annots == IF IsAnnotated(labels, Index(i), labeled_jobs)
                     THEN [k \in 1..Len(itvs) |->
                              [rect |-> rects[k], text |-> job.jobID]]
                     ELSE <<>>
       IN  /\ artists' = artists \o rects
           /\ annotations' = annotations \o annots
    /\ i' = i + 1
    /\ UNCHANGED <<window, callVars, pc, df, res_bounds, labels, number_counter, numbers_map,
                   jobs_for_unique_number, unique_numbers, labeled_jobs,
                   xlim, loadVars, cmpVars>>

Truthy(opt) == opt # None /\ opt[1] # 0

WindowTimes == {None, Some(0), Some(2)}

GanttXlim(table, windowStartTime, windowFinishTime, current) ==
    IF ~Truthy(windowStartTime) /\ ~Truthy(windowFinishTime)
    THEN <<Min({table[k].submission_time : k \in 1..Len(table)}),
           Max({table[k].starting_time + table[k].execution_time :
                   k \in 1..Len(table)})>>
    ELSE IF Truthy(windowStartTime) /\ Truthy(windowFinishTime)
         THEN <<windowStartTime[1], windowFinishTime[1]>>
         ELSE current

(* The window arguments of the call: plot_gantt_pstates passes none. *)
WindowArgs == IF args.fn = "plot_gantt_pstates" THEN {None} ELSE WindowTimes

(* The graph limits, the grid, the title and the y label set after all     *)
(* rows are drawn, and the return to the caller.                           *)
SetLimits ==
    /\ pc = "plot"
    /\ i > Len(df)
    /\ \E windowStartTime \in WindowArgs, windowFinishTime \in WindowArgs :
           /\ window' = <<windowStartTime, windowFinishTime>>
           /\ xlim' = GanttXlim(df, windowStartTime, windowFinishTime, xlim)
    /\ calls' = calls \o
           <<[call |-> "set_ylim",
              ylim |-> <<res_bounds[1] - 1, res_bounds[2] + 2>>],
             [call |-> "grid"], [call |-> "set_title"],
             [call |-> "set_ylabel", label |-> "Machines"]>>
    /\ pc' = IF args.fn = "plot_gantt_pstates" THEN "gantt_pstates" ELSE "done"
    /\ UNCHANGED <<args, locals, df, res_bounds, i, ganttVars, artists,
                   loadVars, cmpVars>>

NextGantt == MapRow \/ MapLabels \/ PlotJob \/ SetLimits

-----------------------------------------------------------------------------
(* plot_processor_load *)

(* The negation of the test "base[0] + width != proc or load[proc] != base[1]". *)
CanMerge(base, width, proc, proc_load) ==
    base[1] + width = proc /\ proc_load = base[2]

LoadRectUnstacked(name, base, width, height) ==
    [job |-> name, x |-> base[1], y |-> 0, width |-> width, height |-> height]

(* _draw_rect(ax, base, width, height, ...): base is (proc, load). *)
LoadRect(name, base, width, height) ==
    [job |-> name, x |-> base[1], y |-> base[2], width |-> width,
     height |-> height]

SetLoad(l, proc, duration) == [l EXCEPT ![proc] = duration]

AddLoad(l, proc, duration) == [l EXCEPT ![proc] = @ + duration]

(* The loop over the processors of one job, from its k-th processor on.    *)
(* st holds base, width, load and the rectangles drawn by this job.  A     *)
(* processor outside load's keys raises KeyError and ends the loop: in the *)
(* test itself when the processor continues the running rectangle (the     *)
(* "or" goes on to load[proc]), otherwise at "base = (proc, load[proc])",  *)
(* after the pending rectangle has been drawn.                             *)
RECURSIVE ScanProcs(_, _, _, _, _)
ScanProcs(name, procs, k, duration, st) ==
    IF k > Len(procs) \/ st.error
    THEN st
    ELSE LET proc == procs[k]
         IN  IF proc \notin DOMAIN st.load
             THEN IF st.base[1] + st.width # proc
                  THEN [st EXCEPT !.error = TRUE,
                                  !.rects = Append(@, LoadRect(name, st.base,
                                                         st.width, duration))]
                  ELSE [st EXCEPT !.error = TRUE]
             ELSE LET merge == CanMerge(st.base, st.width, proc, st.load[proc])
                  IN  ScanProcs(name, procs, k + 1, duration,
                          [base |-> IF merge THEN st.base
                                    ELSE <<proc, st.load[proc]>>,
                           width |-> IF merge THEN st.width + 1 ELSE 1,
                           load |-> AddLoad(st.load, proc, duration),
                           rects |-> IF merge THEN st.rects
                                     ELSE Append(st.rects,
                                              LoadRect(name, st.base, st.width,
                                                       duration)),
                           error |-> FALSE])

(* _draw_rect annotates the rectangle when there is a label. *)
LoadAnnotations(with_labels, row, rects) ==
    IF with_labels /\ row.jobID # ""
    THEN [k \in 1..Len(rects) |-> [rect |-> rects[k], text |-> row.jobID]]
    ELSE <<>>

(* One iteration of the loop over jobset.df.itertuples().  An empty        *)
(* allocation raises StopIteration at next(iter(...)), a first processor   *)
(* outside the bounds raises KeyError before anything is drawn.            *)
ProcessJob ==
    /\ pc = "load"
    /\ i <= Len(df)
    /\ LET row == df[i]
           procs == SortedSeq(row.allocated_resources)
       IN  IF procs = <<>>
           THEN /\ pc' = "StopIteration"
                /\ UNCHANGED <<i, load, artists, annotations>>
           ELSE IF procs[1] \notin DOMAIN load
           THEN /\ pc' = "KeyError"
                /\ UNCHANGED <<i, load, artists, annotations>>
           ELSE LET st == ScanProcs(Index(i), procs, 1, row.execution_time,
                              [base |-> <<procs[1], load[procs[1]]>>,
                               width |-> 0,
                               load |-> load,
                               rects |-> <<>>,
                               error |-> FALSE])
                    last == IF st.width > 0
                            THEN <<LoadRect(Index(i), st.base, st.width,
                                            row.execution_time)>>
                            ELSE <<>>
                IN  /\ load' = st.load
                    /\ IF st.error
                       THEN /\ pc' = "KeyError"
                            /\ i' = i
                            /\ artists' = artists \o st.rects
                            /\ annotations' = annotations
                                   \o LoadAnnotations(labels, row, st.rects)
                       ELSE /\ pc' = pc
                            /\ i' = i + 1
                            /\ artists' = artists \o st.rects \o last
                            /\ annotations' = annotations
                                   \o LoadAnnotations(labels, row,
                                                      st.rects \o last)
    /\ UNCHANGED <<window, callVars, df, res_bounds, labels, number_counter,
                   numbers_map, jobs_for_unique_number, unique_numbers,
                   labeled_jobs, xlim, cmpVars>>

(* The axis limits, the grid, the title and the axis labels set after the  *)
(* loop; 1.02 * max(load.values()) is kept in hundredths.                  *)
FinishLoad ==
    /\ pc = "load"
    /\ i > Len(df)
    /\ xlim' = res_bounds
    /\ calls' = calls \o
           <<[call |-> "set_ylim",
              ylim100 |-> <<0, 102 * Max({load[p] : p \in DOMAIN load})>>],
             [call |-> "grid"], [call |-> "set_title"],
             [call |-> "set_xlabel", label |-> "proc. id"],
             [call |-> "set_ylabel", label |-> "load / s"]>>
    /\ pc' = "done"
    /\ UNCHANGED <<window, args, locals, df, res_bounds, i, ganttVars, artists,
                   loadVars, cmpVars>>

NextLoad == ProcessJob \/ FinishLoad

-----------------------------------------------------------------------------
(* plot_series_comparison *)

(* A series maps its sample times to values.  NaN is the missing value:    *)
(* every comparison with it is false.                                      *)
NaN == -1
Less(a, b) == a # NaN /\ b # NaN /\ a < b
LessOrEqual(a, b) == a # NaN /\ b # NaN /\ a <= b

(* pd.DataFrame(series, index=...): each series is aligned on the index,   *)
(* a time the series has no sample at gives NaN.                           *)
Reindex(serie, index) ==
    [k \in 1..Len(index) |->
        IF index[k] \in DOMAIN serie THEN serie[index[k]] ELSE NaN]

(* fillna(method="ffill"): a NaN takes the last value before it in the     *)
(* column, and stays NaN when there is none.                               *)
FFill(column) ==
    [k \in 1..Len(column) |->
        LET valid == {j \in 1..k : column[j] # NaN}
        IN  IF valid = {} THEN NaN ELSE column[Max(valid)]]

(* The two series are drawn and the comparison df is built on the index   *)
(* of the first series, in the order that index has.                       *)
BuildComparison ==
    /\ pc = "cmp"
    /\ LET first_serie == series[1]
           second_serie == series[2]
           index == args.first_index
       IN  cmp_df' = [index |-> index,
                      y1 |-> FFill(Reindex(first_serie, index)),
                      y2 |-> FFill(Reindex(second_serie, index))]
    /\ calls' = calls \o
           <<[call |-> "plot", serie |-> series[1],
              label |-> args.names[1], drawstyle |-> "steps-post"],
             [call |-> "plot", serie |-> series[2],
              label |-> args.names[2], drawstyle |-> "steps-post"]>>
    /\ pc' = "red"
    /\ UNCHANGED <<window, args, locals, df, res_bounds, i, ganttVars, artists,
                   xlim, loadVars, series, red, green>>

RedWhereOrEqual(y1, y2) == [k \in 1..Len(y1) |-> LessOrEqual(y2[k], y1[k])]

(* where=y2 < y1 *)
RedWhere(y1, y2) == [k \in 1..Len(y1) |-> Less(y2[k], y1[k])]

(* where=y2 > y1 *)
GreenWhere(y1, y2) == [k \in 1..Len(y1) |-> Less(y1[k], y2[k])]

FillRed ==
    /\ pc = "red"
    /\ red' = RedWhere(cmp_df.y1, cmp_df.y2)
    /\ calls' = Append(calls,
           [call |-> "fill_between", where |-> RedWhere(cmp_df.y1, cmp_df.y2),
            facecolor |-> "red",
            label |-> args.names[1] \o ">" \o args.names[2]])
    /\ pc' = "green"
    /\ UNCHANGED <<window, args, locals, df, res_bounds, i, ganttVars, artists,
                   xlim, loadVars, series, cmp_df, green>>

(* The green band, then the grid and the title. *)
FillGreen ==
    /\ pc = "green"
    /\ green' = GreenWhere(cmp_df.y1, cmp_df.y2)
    /\ calls' = calls \o
           <<[call |-> "fill_between",
              where |-> GreenWhere(cmp_df.y1, cmp_df.y2),
              facecolor |-> "green",
              label |-> args.names[1] \o "<" \o args.names[2]],
             [call |-> "grid"], [call |-> "set_title"]>>
    /\ pc' = "done"
    /\ UNCHANGED <<window, args, locals, df, res_bounds, i, ganttVars, artists,
                   xlim, loadVars, series, cmp_df, red>>

NextCmp == BuildComparison \/ FillRed \/ FillGreen

-----------------------------------------------------------------------------
(* plot_series *)

available_series == {"bonded_slowdown", "waiting_time", "all"}

IsAvailableAlways(series_type) == TRUE

IsAvailable(series_type) == series_type \in available_series

(* The test of series_type: an unknown type raises AttributeError, a known *)
(* type other than "waiting_time" raises RuntimeError.                     *)
CheckSeriesType ==
    /\ pc = "plot_series"
    /\ pc' = IF ~IsAvailable(args.series_type) THEN "AttributeError"
             ELSE IF args.series_type = "waiting_time" THEN "waiting_time"
             ELSE "RuntimeError"
    /\ UNCHANGED <<df, res_bounds, i, ganttVars, artists, xlim, loadVars,
                   cmpVars, window, callVars>>

(* One iteration of the loop over jobsets.keys(): the cumulative waiting   *)
(* time of the jobset, on a datetime index when time_scale is set.         *)
BuildSerie ==
    /\ pc = "waiting_time"
    /\ i <= Len(args.jobsets)
    /\ locals' = [locals EXCEPT !.series =
                     Append(@, [name |-> args.jobsets[i],
                                data |-> "cumulative_waiting_time",
                                index |-> IF args.time_scale THEN "datetime"
                                          ELSE "seconds"])]
    /\ i' = i + 1
    /\ UNCHANGED <<pc, df, res_bounds, ganttVars, artists, xlim, loadVars,
                   cmpVars, window, args, calls>>

(* One iteration of the loop over series.items(). *)
PlotSerie ==
    /\ pc = "waiting_time"
    /\ i > Len(args.jobsets)
    /\ Len(calls) < Len(locals.series)
    /\ calls' = Append(calls, [call |-> "plot",
                               serie |-> locals.series[Len(calls) + 1],
                               label |-> locals.series[Len(calls) + 1].name,
                               drawstyle |-> "steps"])
    /\ UNCHANGED <<pc, df, res_bounds, i, ganttVars, artists, xlim, loadVars,
                   cmpVars, window, args, locals>>

(* Legend, title and grid. *)
DecorateSeries ==
    /\ pc = "waiting_time"
    /\ i > Len(args.jobsets)
    /\ Len(calls) = Len(locals.series)
    /\ calls' = calls \o <<[call |-> "legend"],
                           [call |-> "set_title", title |-> args.series_type],
                           [call |-> "grid"]>>
    /\ pc' = "done"
    /\ UNCHANGED <<df, res_bounds, i, ganttVars, artists, xlim, loadVars,
                   cmpVars, window, args, locals>>

NextSeries == CheckSeriesType \/ BuildSerie \/ PlotSerie \/ DecorateSeries

-----------------------------------------------------------------------------
(* plot_gantt_general_shape *)

(* The rectangle of one range of a job of the jobset called name. *)
ShapeRect(name, k, job, itv) ==
    [job |-> <<name, Index(k)>>,
     x |-> job.starting_time,
     y |-> itv[1],
     width |-> job.execution_time,
     height10 |-> (itv[2] - itv[1]) * 10 + 9]

RECURSIVE ShapeRects(_, _, _)
ShapeRects(name, table, k) ==
    IF k > Len(table) THEN <<>>
    ELSE LET itvs == Intervals(table[k].allocated_resources)
         IN  [n \in 1..Len(itvs) |-> ShapeRect(name, k, table[k], itvs[n])]
                 \o ShapeRects(name, table, k + 1)

(* "if not xmin or jobset.df.submission_time.min() < xmin" *)
ShapeXmin(xmin, table) ==
    LET least == Min({table[k].submission_time : k \in 1..Len(table)})
    IN  IF ~Truthy(xmin) \/ least < xmin[1] THEN Some(least) ELSE xmin

(* "if not xmax or jobset.df.finish_time.max() < xmax" *)
ShapeXmax(xmax, table) ==
    LET greatest == Max({table[k].finish_time : k \in 1..Len(table)})
    IN  IF ~Truthy(xmax) \/ greatest < xmax[1] THEN Some(greatest) ELSE xmax

(* One iteration of the loop over jobset_list.items(). *)
PlotJobset ==
    /\ pc = "shape"
    /\ i <= Len(args.jobset_list)
    /\ LET jobset == args.jobset_list[i]
       IN  /\ artists' = artists \o ShapeRects(jobset.name, jobset.df, 1)
           /\ locals' = [color_index |-> locals.color_index + 1,
                         legend_label |-> Append(locals.legend_label,
                                                 jobset.name),
                         xmin |-> ShapeXmin(locals.xmin, jobset.df),
                         xmax |-> ShapeXmax(locals.xmax, jobset.df)]
    /\ i' = i + 1
    /\ UNCHANGED <<pc, df, res_bounds, ganttVars, xlim, loadVars, cmpVars,
                   window, args, calls>>

(* The legend, the axis limits, the grid, the title and the y label set    *)
(* after the loop; the y limits come from the last jobset of the loop.     *)
FinishShape ==
    /\ pc = "shape"
    /\ i > Len(args.jobset_list)
    /\ LET jobset == args.jobset_list[Len(args.jobset_list)]
       IN  calls' = calls \o
               <<[call |-> "legend", labels |-> locals.legend_label],
                 [call |-> "set_ylim",
                  ylim |-> <<jobset.res_bounds[1] - 1,
                             jobset.res_bounds[2] + 2>>],
                 [call |-> "grid"], [call |-> "set_title"],
                 [call |-> "set_ylabel", label |-> "Machines"]>>
    /\ xlim' = <<locals.xmin[1], locals.xmax[1]>>
    /\ pc' = "done"
    /\ UNCHANGED <<df, res_bounds, i, ganttVars, artists, loadVars, cmpVars,
                   window, args, locals>>

NextShape == PlotJobset \/ FinishShape

-----------------------------------------------------------------------------
(* plot_binned_load, time_scale off *)

(* A load value or a mean is the fraction <<numerator, denominator>>. *)
Frac(v) == <<v, 1>>
DivBy(q, d) == <<q[1], q[2] * d>>
DivAll(column, d) == [k \in 1..Len(column) |-> DivBy(column[k], d)]
MaxOf(column) == Max({column[k] : k \in 1..Len(column)})

Classes == {"Small", "Long", "Large"}

(* "if normalize and nb_resources is None": the three ceilings are taken   *)
(* from the maxima of the load series.                                     *)
BinnedCeilings(a) ==
    IF a.normalize /\ a.nb_resources = None
    THEN [c \in Classes |-> Some(MaxOf(a.load[c]))]
    ELSE a.nb_resourcesOf

(* The copies, the ceilings and the normalisation.  Dividing by a ceiling  *)
(* that is None raises TypeError.                                          *)
NormalizeBinned ==
    /\ pc = "plot_binned_load"
    /\ LET nb == BinnedCeilings(args)
           raw == [c \in Classes |->
                      [k \in 1..Len(args.load[c]) |-> Frac(args.load[c][k])]]
           rawmean == [c \in Classes |-> Frac(args.mean[c])]
       IN  IF args.normalize /\ \E c \in Classes : nb[c] = None
           THEN /\ pc' = "TypeError"
                /\ locals' = [locals EXCEPT !.nb_resourcesOf = nb]
           ELSE /\ pc' = "divisor"
                /\ locals' =
                       [nb_resourcesOf |-> nb,
                        load |-> IF args.normalize
                                 THEN [c \in Classes |->
                                          DivAll(raw[c], nb[c][1])]
                                 ELSE raw,
                        mean |-> IF args.normalize
                                 THEN [c \in Classes |->
                                          DivBy(rawmean[c], nb[c][1])]
                                 ELSE rawmean,
                        o |-> IF args.divisor = None THEN None
                              ELSE [k \in 1..Len(args.loadOverall) |->
                                       Frac(args.loadOverall[k])],
                        meanOverall |-> IF args.divisor = None THEN None
                                        ELSE Frac(args.meanOverall)]
    /\ UNCHANGED <<df, res_bounds, i, ganttVars, artists, xlim, loadVars,
                   cmpVars, window, args, calls>>

(* "if divisor != None": every series and mean is divided once more. *)
DivideBinned ==
    /\ pc = "divisor"
    /\ locals' = IF args.divisor = None THEN locals
                 ELSE [locals EXCEPT
                          !.load = [c \in Classes |->
                                       DivAll(@[c], args.divisor[1])],
                          !.mean = [c \in Classes |->
                                       DivBy(@[c], args.divisor[1])],
                          !.o = DivAll(@, args.divisor[1]),
                          !.meanOverall = DivBy(@, args.divisor[1])]
    /\ pc' = "draw"
    /\ UNCHANGED <<df, res_bounds, i, ganttVars, artists, xlim, loadVars,
                   cmpVars, window, args, calls>>

BinnedOrder == <<"Small", "Long", "Large">>

(* The samples of a column with no load, for the rug. *)
ZeroIndex(column) ==
    {Index(k) : k \in {q \in 1..Len(column) : column[q][1] = 0}}

(* The margins, the step lines of the three classes, the lines of the      *)
(* maximum resources (only without normalize and with the three ceilings   *)
(* set), the lines of the means, the rugs, the empty scatter of the legend *)
(* entry, the limits, the grid, the legend, the title and the y label;     *)
(* with a divisor the overall load, its mean, the reservation rug and the  *)
(* x limits as well.  An x limit of None leaves that end as it was.        *)
DrawBinned ==
    /\ pc = "draw"
    /\ xlim' = IF args.divisor # None
               THEN <<0, IF args.xAxisTermination = None THEN xlim[2]
                         ELSE args.xAxisTermination[1]>>
               ELSE xlim
    /\ calls' =
           <<[call |-> "margins"]>>
           \o [k \in 1..3 |-> [call |-> "plot", what |-> "load",
                            class |-> BinnedOrder[k],
                            y |-> locals.load[BinnedOrder[k]]]]
           \o (IF args.divisor # None
               THEN <<[call |-> "plot", what |-> "load",
                       class |-> "Overall", y |-> locals.o]>>
               ELSE <<>>)
           \o (IF (\A c \in Classes : Truthy(locals.nb_resourcesOf[c]))
                  /\ ~args.normalize
               THEN [k \in 1..3 |->
                        [call |-> "plot", what |-> "maximum",
                         class |-> BinnedOrder[k],
                         y |-> locals.nb_resourcesOf[BinnedOrder[k]][1]]]
               ELSE <<>>)
           \o [k \in 1..3 |-> [call |-> "plot", what |-> "mean",
                               class |-> BinnedOrder[k],
                               y |-> locals.mean[BinnedOrder[k]]]]
           \o (IF args.divisor # None
               THEN <<[call |-> "plot", what |-> "mean",
                       class |-> "Overall", y |-> locals.meanOverall]>>
               ELSE <<>>)
           \o [k \in 1..3 |->
                  [call |-> "rugplot", class |-> BinnedOrder[k],
                   index |-> ZeroIndex(locals.load[BinnedOrder[k]])]]
           \o (IF args.divisor # None
               THEN <<[call |-> "rugplot", class |-> "reservation",
                       time |-> <<args.reservationStartTime,
                                  args.reservationFinishTime>>]>>
               ELSE <<>>)
           \o <<[call |-> "scatter"],
                [call |-> "set", what |-> "ylim", class |-> "",
                 y |-> IF args.divisor # None
                       THEN <<MaxOf(args.loadOverall)
                                  + 10 * args.divisor[1], args.divisor[1]>>
                       ELSE Frac(1490 + 10)],
                [call |-> "grid"], [call |-> "legend"],
                [call |-> "set_title",
                 title |-> "Cluster Utilization by Job Type"],
                [call |-> "set_ylabel", label |-> "Machines"]>>
    /\ pc' = "done"
    /\ UNCHANGED <<df, res_bounds, i, ganttVars, artists, loadVars, cmpVars,
                   window, args, locals>>

NextBinned == NormalizeBinned \/ DivideBinned \/ DrawBinned

-----------------------------------------------------------------------------
(* plot_load, time_scale off *)

(* u.load.max() of a column of fractions that share their denominator. *)
MaxFrac(column) ==
    <<Max({column[k][1] : k \in 1..Len(column)}), column[1][2]>>

(* The copies and the two normalisations.  normalize_power without a power *)
(* series reads p before it is bound.                                      *)
PrepareLoad ==
    /\ pc = "plot_load"
    /\ LET raw == [k \in 1..Len(args.load) |-> Frac(args.load[k])]
           nb_resources == IF args.normalize /\ args.nb_resources = None
                           THEN Some(MaxOf(args.load))
                           ELSE args.nb_resources
           u == IF args.normalize THEN DivAll(raw, nb_resources[1]) ELSE raw
           mean == IF args.normalize
                   THEN DivBy(Frac(args.mean), nb_resources[1])
                   ELSE Frac(args.mean)
       IN  IF args.normalize_power /\ args.power = None
           THEN /\ pc' = "UnboundLocalError"
                /\ locals' = [u |-> u, mean |-> mean,
                              nb_resources |-> nb_resources, p |-> None]
           ELSE /\ pc' = "draw_load"
                /\ locals' =
                       [u |-> u, mean |-> mean,
                        nb_resources |-> nb_resources,
                        p |-> IF args.power = None THEN None
                              ELSE IF args.normalize_power
                              THEN LET max_power == MaxOf(args.power[1])
                                       top == MaxFrac(u)
                                   IN  Some([k \in 1..Len(args.power[1]) |->
                                               <<args.power[1][k] * top[1],
                                                 max_power * top[2]>>])
                              ELSE Some([k \in 1..Len(args.power[1]) |->
                                            Frac(args.power[1][k])])]
    /\ UNCHANGED <<df, res_bounds, i, ganttVars, artists, xlim, loadVars,
                   cmpVars, window, args, calls>>

(* The margins, the step line of the load, the power on a twin axis, the   *)
(* line of the maximum resources (only without normalize), the line of the *)
(* mean, the rug of the samples with no load and the empty scatter that    *)
(* carries their legend entry.                                             *)
DrawLoad ==
    /\ pc = "draw_load"
    /\ calls' =
           <<[call |-> "margins"],
             [call |-> "plot", what |-> "load", y |-> locals.u]>>
           \o (IF args.power # None
               THEN <<[call |-> "twinx"],
                      [call |-> "plot", what |-> "consumedEnergy",
                       y |-> locals.p[1]]>>
               ELSE <<>>)
           \o (IF Truthy(locals.nb_resources) /\ ~args.normalize
               THEN <<[call |-> "plot", what |-> "maximum",
                       y |-> locals.nb_resources[1]]>>
               ELSE <<>>)
           \o <<[call |-> "plot", what |-> "mean", y |-> locals.mean],
                [call |-> "rugplot", index |-> ZeroIndex(locals.u)],
                [call |-> "scatter"]>>
    /\ pc' = "limits_load"
    /\ UNCHANGED <<df, res_bounds, i, ganttVars, artists, xlim, loadVars,
                   cmpVars, window, args, locals>>

(* The window, when both of its ends are truthy, then the grid, the labels *)
(* and the legends.  xlim holds the limits last given to set_xlim.         *)
LimitsLoad ==
    /\ pc = "limits_load"
    /\ \E windowStartTime \in WindowTimes, windowFinishTime \in WindowTimes :
           /\ window' = <<windowStartTime, windowFinishTime>>
           /\ xlim' = IF Truthy(windowStartTime) /\ Truthy(windowFinishTime)
                      THEN <<windowStartTime[1], windowFinishTime[1]>>
                      ELSE xlim
    /\ calls' = calls
           \o <<[call |-> "grid"]>>
           \o (IF args.power # None
               THEN <<[call |-> "par.legend"],
                      [call |-> "par.set_ylabel", label |-> "consumedEnergy"]>>
               ELSE <<>>)
           \o <<[call |-> "set_ylabel", label |-> "Machines"],
                [call |-> "set_xlabel", label |-> "Time"],
                [call |-> "legend"], [call |-> "tight_layout"]>>
    /\ pc' = "done"
    /\ UNCHANGED <<df, res_bounds, i, ganttVars, artists, loadVars, cmpVars,
                   args, locals>>

NextPlotLoad == PrepareLoad \/ DrawLoad \/ LimitsLoad

-----------------------------------------------------------------------------
(* plot_mstates *)

stack_order == <<"nb_sleeping", "nb_switching_on", "nb_switching_off",
                 "nb_idle", "nb_computing">>

(* alphas [0.6, 1, 1, 0, 0.3], in tenths *)
alphas10 == <<6, 10, 10, 0, 3>>

DefaultPalette == <<"#000000", "#56ae6c", "#ba495b", "#000000", "#8960b3">>

(* list[::-1] *)
Reversed(list) == [k \in 1..Len(list) |-> list[Len(list) + 1 - k]]

(* np.row_stack of the columns in the given order: row k is the series of  *)
(* the k-th state.                                                         *)
RowStack(mstates_df, order) == [k \in 1..Len(order) |-> mstates_df[order[k]]]

CumSumNoCarry(rows) == rows

(* np.cumsum(y, axis=0): row k is the sum of the rows 1..k, per sample. *)
RECURSIVE CumSum(_)
CumSum(rows) ==
    IF Len(rows) <= 1 THEN rows
    ELSE LET below == CumSum(SubSeq(rows, 1, Len(rows) - 1))
             top == rows[Len(rows)]
         IN  Append(below,
                    [t \in 1..Len(top) |-> below[Len(below)][t] + top[t]])

(* Parameter handling, the size assertion, the reversal and the stacking. *)
StackMstates ==
    /\ pc = "plot_mstates"
    /\ LET palette == IF args.palette = None THEN DefaultPalette
                      ELSE args.palette[1]
       IN  IF Len(palette) # Len(stack_order)
           THEN /\ pc' = "AssertionError"
                /\ UNCHANGED locals
           ELSE /\ pc' = "fill_first"
                /\ LET order == IF args.reverse THEN Reversed(stack_order)
                                ELSE stack_order
                   IN  locals' =
                           [palette |-> IF args.reverse THEN Reversed(palette)
                                        ELSE palette,
                            stack_order |-> order,
                            alphas |-> IF args.reverse THEN Reversed(alphas10)
                                       ELSE alphas10,
                            y |-> CumSum(RowStack(args.mstates_df, order)),
                            index |-> 0]
    /\ UNCHANGED <<df, res_bounds, i, ganttVars, artists, xlim, loadVars,
                   cmpVars, window, args, calls>>

(* The first fill_between, from 0 to the first cumulative row. *)
FillFirst ==
    /\ pc = "fill_first"
    /\ calls' = <<[call |-> "fill_between",
                   y1 |-> [t \in 1..Len(locals.y[1]) |-> 0],
                   y2 |-> locals.y[1],
                   facecolor |-> locals.palette[1],
                   alpha |-> locals.alphas[1],
                   label |-> locals.stack_order[1]]>>
    /\ pc' = "fill"
    /\ UNCHANGED <<df, res_bounds, i, ganttVars, artists, xlim, loadVars,
                   cmpVars, window, args, locals>>

(* One turn of "for index, _ in enumerate(stack_order[1:])"; the model's   *)
(* sequences start at 1, so y[index, :] is locals.y[index + 1].            *)
FillNext ==
    /\ pc = "fill"
    /\ locals.index < Len(locals.stack_order) - 1
    /\ LET index == locals.index
       IN  /\ calls' = Append(calls,
                  [call |-> "fill_between",
                   y1 |-> locals.y[index + 1],
                   y2 |-> locals.y[index + 2],
                   facecolor |-> locals.palette[index + 2],
                   alpha |-> locals.alphas[index + 2],
                   label |-> locals.stack_order[index + 2]])
           /\ locals' = [locals EXCEPT !.index = index + 1]
    /\ UNCHANGED <<pc, df, res_bounds, i, ganttVars, artists, xlim, loadVars,
                   cmpVars, window, args>>

(* After the loop: the title, when one is given. *)
TitleMstates ==
    /\ pc = "fill"
    /\ locals.index = Len(locals.stack_order) - 1
    /\ \E title \in {None, Some("title")} :
           calls' = IF title # None
                    THEN Append(calls, [call |-> "set_title",
                                        title |-> title[1]])
                    ELSE calls
    /\ pc' = "done"
    /\ UNCHANGED <<df, res_bounds, i, ganttVars, artists, xlim, loadVars,
                   cmpVars, window, args, locals>>

NextMstates == StackMstates \/ FillFirst \/ FillNext \/ TitleMstates

-----------------------------------------------------------------------------
(* plot_pstates and plot_gantt_pstates *)

(* float("inf"), above every time of the model *)
Inf == 9

(* Python's min(a, b) and max(a, b): b only when the comparison with a     *)
(* holds, so a NaN second argument leaves a.                               *)
PyMin(a, b) == IF Less(b, a) THEN b ELSE a
PyMax(a, b) == IF Less(a, b) THEN b ELSE a

(* Series.min() and Series.max(): NaN on an empty series. *)
SeriesMin(S) == IF S = {} THEN NaN ELSE Min(S)
SeriesMax(S) == IF S = {} THEN NaN ELSE Max(S)

(* plot_gantt_pstates after plot_gantt has returned: the limits from the   *)
(* jobs and from the pseudo-jobs that end, then the grid and the title.    *)
GanttPstatesLimits ==
    /\ pc = "gantt_pstates"
    /\ LET pj == args.pseudo_jobs
           fpb == {k \in 1..Len(pj) : pj[k].end < Inf}
       IN  xlim' =
               <<PyMin(Min({df[k].submission_time : k \in 1..Len(df)}),
                       SeriesMin({pj[k].begin : k \in fpb})),
                 PyMax(Max({df[k].starting_time + df[k].execution_time :
                               k \in 1..Len(df)}),
                       SeriesMax({pj[k].end : k \in fpb}))>>
    /\ calls' = calls \o
           <<[call |-> "set_ylim",
              ylim |-> <<Min({res_bounds[1], args.res_bounds[1]}),
                         Max({res_bounds[2], args.res_bounds[2]})>>],
             [call |-> "grid"], [call |-> "set_title"]>>
    /\ pc' = "plot_pstates"
    /\ UNCHANGED <<df, res_bounds, i, ganttVars, artists, loadVars, cmpVars,
                   window, args, locals>>

pstate_palette == <<"#000000", "#56ae6c", "#ba495b">>
pstate_labels == <<"OFF", "switch ON", "switch OFF">>
(* alphas [0.6, 1, 1], in tenths *)
pstate_alphas10 == <<6, 10, 10>>

SetOrEmpty(opt) == IF opt = None THEN {} ELSE opt[1]

(* Parameter handling of plot_pstates; from plot_gantt_pstates the horizon *)
(* is ax.get_xlim()[1].                                                    *)
PstatesParams ==
    /\ pc = "plot_pstates"
    /\ locals' = [x_horizon |-> IF args.fn = "plot_gantt_pstates"
                                THEN xlim[2] ELSE args.x_horizon[1],
                  off_pstates |-> SetOrEmpty(args.off_pstates),
                  son_pstates |-> SetOrEmpty(args.son_pstates),
                  soff_pstates |-> SetOrEmpty(args.soff_pstates)]
    /\ i' = 1
    /\ pc' = "pseudo_jobs"
    /\ UNCHANGED <<df, res_bounds, ganttVars, artists, xlim, loadVars,
                   cmpVars, window, args, calls>>

(* The first set the pstate is in, in the order of the if/elif chain;      *)
(* col_id + 1, the model's sequences starting at 1.                        *)
ColId(pstate, off, son, soff) ==
    IF pstate \in off THEN 1 ELSE IF pstate \in son THEN 2 ELSE 3

PstateRect(name, job, machine_interval, x_horizon, col) ==
    LET y0 == machine_interval[1]
        y1 == machine_interval[2]
        b == job.begin
        e == Min({job.end, x_horizon})
    IN  [job |-> name, x |-> b, y |-> y0, width |-> e - b,
         height10 |-> (y1 - y0) * 10 + 9,
         color |-> pstate_palette[col], alpha10 |-> pstate_alphas10[col],
         label |-> pstate_labels[col]]

(* One iteration of the loop over pstates.pseudo_jobs.iterrows(). *)
PlotPseudoJob ==
    /\ pc = "pseudo_jobs"
    /\ i <= Len(args.pseudo_jobs)
    /\ LET job == args.pseudo_jobs[i]
           interesting_pstates == locals.off_pstates \cup locals.son_pstates
                                      \cup locals.soff_pstates
           col == ColId(job.pstate, locals.off_pstates, locals.son_pstates,
                        locals.soff_pstates)
           interval_list == args.intervals[job.interval_id]
       IN  artists' =
               IF job.pstate \in interesting_pstates
               THEN artists \o
                    [k \in 1..Len(interval_list) |->
                        PstateRect(Index(i), job, interval_list[k],
                                   locals.x_horizon, col)]
               ELSE artists
    /\ i' = i + 1
    /\ UNCHANGED <<pc, df, res_bounds, ganttVars, xlim, loadVars, cmpVars,
                   window, callVars>>

FinishPstates ==
    /\ pc = "pseudo_jobs"
    /\ i > Len(args.pseudo_jobs)
    /\ pc' = "done"
    /\ UNCHANGED <<df, res_bounds, i, ganttVars, artists, xlim, loadVars,
                   cmpVars, window, callVars>>

NextPstates ==
    \/ MapRow \/ MapLabels \/ PlotJob \/ SetLimits
    \/ GanttPstatesLimits \/ PstatesParams \/ PlotPseudoJob \/ FinishPstates

-----------------------------------------------------------------------------
(* plot_free_resources, time_scale off *)

(* free = nb_resources - utilisation, divided by nb_resources with         *)
(* normalize; then the step of the free resources and the line of the      *)
(* number of resources, which is not normalized.                           *)
FreeResources ==
    /\ pc = "plot_free_resources"
    /\ LET free == [k \in 1..Len(args.utilisation) |->
                       Frac(args.nb_resources - args.utilisation[k])]
           shown == IF args.normalize THEN DivAll(free, args.nb_resources)
                    ELSE free
       IN  /\ locals' = [free |-> shown]
           /\ calls' = <<[call |-> "plot", what |-> "free", y |-> shown],
                         [call |-> "plot", what |-> "maximum",
                          x |-> <<Index(1), Index(Len(shown))>>,
                          y |-> args.nb_resources]>>
    /\ pc' = "done"
    /\ UNCHANGED <<df, res_bounds, i, ganttVars, artists, xlim, loadVars,
                   cmpVars, window, args>>

NextFree == FreeResources

-----------------------------------------------------------------------------
(* plot_fragmentation *)

(* The values of a column in ascending order, repeated values kept. *)
SortValues(column) ==
    CHOOSE sorted \in [1..Len(column) -> {column[k] : k \in 1..Len(column)}] :
        /\ \A k \in 1..(Len(column) - 1) : sorted[k] <= sorted[k + 1]
        /\ \A v \in {column[k] : k \in 1..Len(column)} :
               Cardinality({k \in 1..Len(column) : sorted[k] = v})
                   = Cardinality({k \in 1..Len(column) : column[k] = v})

(* Without ax, plt.subplots(nrows=3) gives the pair (figure, axes), whose  *)
(* length is 2; the assertion wants three axes.                            *)
CheckFragmentationAxes ==
    /\ pc = "plot_fragmentation"
    /\ LET ax == IF args.ax = None THEN <<"figure", "axes">> ELSE args.ax[1]
       IN  /\ pc' = IF Len(ax) = 3 THEN "raw" ELSE "AssertionError"
           /\ locals' = [ax |-> ax]
    /\ UNCHANGED <<df, res_bounds, i, ganttVars, artists, xlim, loadVars,
                   cmpVars, window, args, calls>>

(* The raw data on the first axes and the distribution on the second. *)
DrawFragmentation ==
    /\ pc = "raw"
    /\ calls' = <<[ax |-> locals.ax[1], call |-> "plot", y |-> args.frag,
                   label |-> "Fragmentation"],
                  [ax |-> locals.ax[1], call |-> "set_title",
                   title |-> "Fragmentation over resources"],
                  [ax |-> locals.ax[2], call |-> "distplot", y |-> args.frag,
                   label |-> "Fragmentation"],
                  [ax |-> locals.ax[2], call |-> "set_title",
                   title |-> "Fragmentation distribution"]>>
    /\ pc' = "import"
    /\ UNCHANGED <<df, res_bounds, i, ganttVars, artists, xlim, loadVars,
                   cmpVars, window, args, locals>>

(* The import of statsmodels inside the function fails where the package   *)
(* is not installed.                                                       *)
ImportFails ==
    /\ pc = "import"
    /\ pc' = "ModuleNotFoundError"
    /\ UNCHANGED <<df, res_bounds, i, ganttVars, artists, xlim, loadVars,
                   cmpVars, window, callVars>>

(* The ecdf on the third axes: x is -inf and the sorted values, y goes     *)
(* from 0 to 1 in steps of 1/n (kept as numerators over n).                *)
DrawEcdf ==
    /\ pc = "import"
    /\ calls' = calls \o
           <<[ax |-> locals.ax[3], call |-> "step",
              x |-> <<-Inf>> \o SortValues(args.frag),
              y |-> [k \in 1..(Len(args.frag) + 1) |->
                        <<k - 1, Len(args.frag)>>],
              label |-> "Fragmentation"],
             [ax |-> locals.ax[3], call |-> "set_title",
              title |-> "Fragmentation ecdf"]>>
    /\ pc' = "done"
    /\ UNCHANGED <<df, res_bounds, i, ganttVars, artists, xlim, loadVars,
                   cmpVars, window, args, locals>>

NextFragmentation ==
    CheckFragmentationAxes \/ DrawFragmentation \/ ImportFails \/ DrawEcdf

-----------------------------------------------------------------------------
(* plot_job_details, time_scale off *)

(* df.sort_values(by="jobID"): the rows in ascending jobID, rows of equal  *)
(* jobID in the order they had.                                            *)
SortByJobID(table) ==
    LET order == CHOOSE o \in [1..Len(table) -> 1..Len(table)] :
                     /\ \A j, k \in 1..Len(table) : j # k => o[j] # o[k]
                     /\ \A j, k \in 1..Len(table) :
                            j < k =>
                                \/ table[o[j]].jobID < table[o[k]].jobID
                                \/ /\ table[o[j]].jobID = table[o[k]].jobID
                                   /\ o[j] < o[k]
    IN  [k \in 1..Len(table) |-> [row |-> table[order[k]],
                                  name |-> Index(order[k])]]

(* The copy sorted by jobID with its three time columns (in seconds), the  *)
(* threshold size * 1.05 (in hundredths) and the jittered proc_alloc: the  *)
(* k-th row gets the k-th draw of random.uniform(-size/20, size/20).       *)
PrepareDetails ==
    /\ pc = "plot_job_details"
    /\ LET sorted == SortByJobID(args.dataframe)
       IN  locals' =
               [df |-> [k \in 1..Len(sorted) |->
                           LET row == sorted[k].row
                               submission_time ==
                                   row.submission_time + args.time_offset
                               starting_time ==
                                   submission_time + row.waiting_time
                           IN  [name |-> sorted[k].name,
                                jobID |-> row.jobID,
                                submission_time |-> submission_time,
                                starting_time |-> starting_time,
                                finish_time |->
                                    starting_time + row.execution_time,
                                new_proc_alloc |->
                                    [proc_alloc |-> row.proc_alloc,
                                     draw |-> k]]],
                threshold100 |-> args.size * 105,
                line |-> 1]
    /\ pc' = "lines"
    /\ UNCHANGED <<df, res_bounds, i, ganttVars, artists, xlim, loadVars,
                   cmpVars, window, args, calls>>

DetailLines ==
    <<[begin |-> "submission_time", end |-> "starting_time",
       color |-> "blue", from |-> 0, to |-> 1],
      [begin |-> "starting_time", end |-> "finish_time",
       color |-> "green", from |-> 1, to |-> 2]>>

DetailPoints ==
    <<[serie |-> "submission_time", color |-> "blue", marker |-> ".",
       thresholds |-> 0],
      [serie |-> "starting_time", color |-> "green", marker |-> ">",
       thresholds |-> 1],
      [serie |-> "finish_time", color |-> "red", marker |-> "|",
       thresholds |-> 2]>>

(* One turn of the loop over lines: one segment per row, between the two   *)
(* times and between the two zones.                                        *)
PlotDetailLines ==
    /\ pc = "lines"
    /\ locals.line <= Len(DetailLines)
    /\ LET l == DetailLines[locals.line]
       IN  calls' = calls \o
               [k \in 1..Len(locals.df) |->
                   [call |-> "plot",
                    x |-> <<locals.df[k][l.begin], locals.df[k][l.end]>>,
                    y |-> locals.df[k].new_proc_alloc,
                    y_offset100 |-> <<l.from * locals.threshold100,
                                      l.to * locals.threshold100>>,
                    color |-> l.color]]
    /\ locals' = [locals EXCEPT !.line = @ + 1]
    /\ UNCHANGED <<pc, df, res_bounds, i, ganttVars, artists, xlim, loadVars,
                   cmpVars, window, args>>

(* The three scatters, one point per row each, then the grid, the legend,  *)
(* the title and the y label.                                              *)
PlotDetailPoints ==
    /\ pc = "lines"
    /\ locals.line > Len(DetailLines)
    /\ calls' = calls
           \o [n \in 1..Len(DetailPoints) |->
                  [call |-> "scatter",
                   x |-> [k \in 1..Len(locals.df) |->
                             locals.df[k][DetailPoints[n].serie]],
                   y |-> [k \in 1..Len(locals.df) |->
                             locals.df[k].new_proc_alloc],
                   y_offset100 |-> DetailPoints[n].thresholds
                                       * locals.threshold100,
                   color |-> DetailPoints[n].color,
                   marker |-> DetailPoints[n].marker,
                   label |-> DetailPoints[n].serie]]
           \o <<[call |-> "grid"], [call |-> "legend"], [call |-> "set_title"],
                [call |-> "set_ylabel", label |-> "Job size"]>>
    /\ pc' = "done"
    /\ UNCHANGED <<df, res_bounds, i, ganttVars, artists, xlim, loadVars,
                   cmpVars, window, args, locals>>

NextDetails == PrepareDetails \/ PlotDetailLines \/ PlotDetailPoints

-----------------------------------------------------------------------------
(* Inputs of plot_gantt *)

IdleGantt ==
    /\ labels = FALSE
    /\ number_counter = 1
    /\ numbers_map = <<>>
    /\ jobs_for_unique_number = <<>>
    /\ unique_numbers = <<>>
    /\ labeled_jobs = {}
    /\ annotations = <<>>
IdleLoad == load = <<>>
IdleCmp == series = <<>> /\ cmp_df = <<>> /\ red = <<>> /\ green = <<>>
IdleCall(fn) ==
    /\ window = <<>>
    /\ args = [fn |-> fn]
    /\ locals = <<>>
    /\ calls = <<>>

StartGantt ==
    /\ pc = "map"
    /\ res_bounds = <<0, MaxProc>>
    /\ i = 1
    /\ labels \in BOOLEAN
    /\ number_counter = 1
    /\ numbers_map = <<>>
    /\ jobs_for_unique_number = <<>>
    /\ unique_numbers = <<>>
    /\ labeled_jobs = {}
    /\ artists = <<>>
    /\ annotations = <<>>
    /\ xlim = <<0, 1>>
    /\ IdleLoad
    /\ IdleCmp

Tables(rows, maxlen) == UNION {[1..n -> rows] : n \in 1..maxlen}

(* Job tables whose workload names and job ids contain the separator, and  *)
(* whose rows are allocated (on two ranges) or not.                        *)
IdentityRows ==
    [workload_name : {"w", "w!"}, jobID : {"1", "!1"},
     allocated_resources : {{}, {0, 2}},
     submission_time : {0}, starting_time : {0}, execution_time : {1}]

(* Job tables whose allocations have zero, one or several ranges. *)
ShapeRows ==
    {[workload_name |-> "w", jobID |-> "1", allocated_resources |-> a,
      submission_time |-> t[1], starting_time |-> t[2],
      execution_time |-> t[3]] :
        a \in SUBSET (0..MaxProc), t \in {<<0, 0, 2>>, <<1, 2, 3>>}}

Init ==
    /\ df \in Tables(IdentityRows, MaxRows)
    /\ labels \in BOOLEAN
    /\ StartGantt
    /\ IdleCall("plot_gantt")

InitGantt ==
    /\ df \in Tables(ShapeRows, MaxGanttRows)
    /\ labels = TRUE
    /\ StartGantt
    /\ IdleCall("plot_gantt")

Spec == Init /\ [][NextGantt]_vars
SpecGantt == InitGantt /\ [][NextGantt]_vars

-----------------------------------------------------------------------------
(* Inputs of plot_processor_load: any allocations, also empty ones and     *)
(* ones that reach outside the resource bounds.                            *)

LoadRows ==
    [workload_name : {"w"}, jobID : {"1"},
     allocated_resources : SUBSET (0..MaxProc),
     submission_time : {0}, starting_time : {0}, execution_time : {1, 2}]

InitLoad ==
    /\ df \in Tables(LoadRows, MaxLoadJobs)
    /\ res_bounds \in {<<0, MaxProc>>, <<0, MaxProc - 1>>}
    /\ load = [p \in res_bounds[1]..res_bounds[2] |-> 0]
    /\ pc = "load"
    /\ i = 1
    /\ artists = <<>>
    /\ xlim = <<0, 1>>
    /\ labels \in BOOLEAN
    /\ number_counter = 1
    /\ numbers_map = <<>>
    /\ jobs_for_unique_number = <<>>
    /\ unique_numbers = <<>>
    /\ labeled_jobs = {}
    /\ annotations = <<>>
    /\ IdleCmp
    /\ IdleCall("plot_processor_load")

SpecLoad == InitLoad /\ [][NextLoad]_vars

-----------------------------------------------------------------------------
(* Inputs of plot_series_comparison: two series, each with its own         *)
(* non-empty set of sample times.                                          *)

SeriesValues == {1, 2}

(* The orders the index of a series can have: its sample times need not    *)
(* ascend.                                                                 *)
Orders(T) ==
    {o \in [1..Cardinality(T) -> T] :
        \A j, k \in 1..Cardinality(T) : j # k => o[j] # o[k]}
AllSeries ==
    UNION {[T -> SeriesValues] : T \in (SUBSET (0..MaxTime)) \ {{}}}

InitCmp ==
    /\ series \in AllSeries \X AllSeries
    /\ cmp_df = <<>>
    /\ red = <<>>
    /\ green = <<>>
    /\ pc = "cmp"
    /\ df = <<>>
    /\ res_bounds = <<0, 0>>
    /\ i = 1
    /\ artists = <<>>
    /\ xlim = <<0, 1>>
    /\ IdleGantt
    /\ IdleLoad
    /\ window = <<>>
    /\ args \in [fn : {"plot_series_comparison"},
                 names : {<<"A", "B">>},
                 first_index : Orders(DOMAIN series[1])]
    /\ locals = <<>>
    /\ calls = <<>>

SpecCmp == InitCmp /\ [][NextCmp]_vars

-----------------------------------------------------------------------------
(* Inputs of the renderers below: nothing of the job-table renderers runs. *)

IdleTable ==
    /\ df = <<>>
    /\ res_bounds = <<0, 0>>
    /\ artists = <<>>
    /\ xlim = <<0, 1>>
    /\ window = <<>>
    /\ IdleGantt
    /\ IdleLoad
    /\ IdleCmp

(* The sequences of distinct names of length at most n: the keys of a dict *)
(* in insertion order.                                                     *)
KeyLists(names, n) ==
    {ks \in UNION {[1..m -> names] : m \in 0..n} :
        \A j \in DOMAIN ks, k \in DOMAIN ks : ks[j] = ks[k] => j = k}

JobsetNames == {"a", "b", "c"}
SeriesTypes == available_series \cup {"slowdown", ""}

InitSeries ==
    /\ pc = "plot_series"
    /\ args \in [fn : {"plot_series"},
                 series_type : SeriesTypes,
                 jobsets : KeyLists(JobsetNames, MaxJobsets),
                 time_scale : BOOLEAN]
    /\ locals = [series |-> <<>>]
    /\ calls = <<>>
    /\ i = 1
    /\ IdleTable

SpecSeries == InitSeries /\ [][NextSeries]_vars

(* Jobsets of plot_gantt_general_shape: tables whose times include 0. *)
GeneralShapeRows ==
    {[allocated_resources |-> {0, 2},
      submission_time |-> t, starting_time |-> t, execution_time |-> d,
      finish_time |-> t + d] : t \in {0, 1}, d \in {0, 1, 2}}

JobsetLists(n) ==
    UNION {[1..m -> [name : JobsetNames,
                     res_bounds : {<<0, MaxProc>>},
                     df : Tables(GeneralShapeRows, MaxGanttRows)]] :
              m \in 1..n}

InitShape ==
    /\ pc = "shape"
    /\ args \in [fn : {"plot_gantt_general_shape"},
                 jobset_list :
                     {l \in JobsetLists(MaxJobsets) :
                         \A k \in DOMAIN l : l[k].name = <<"a", "b", "c">>[k]}]
    /\ locals = [color_index |-> 0, legend_label |-> <<>>,
                 xmin |-> None, xmax |-> None]
    /\ calls = <<>>
    /\ i = 1
    /\ IdleTable

SpecShape == InitShape /\ [][NextShape]_vars

(* Inputs of plot_binned_load: each ceiling supplied or omitted. *)
Ceilings == {None, Some(4)}

InitBinned ==
    /\ pc = "plot_binned_load"
    /\ args \in [fn : {"plot_binned_load"},
                 load : [Classes -> [1..MaxSamples -> {1, 2}]],
                 mean : [Classes -> {1, 3}],
                 loadOverall : [1..MaxSamples -> {3}],
                 meanOverall : {3},
                 nb_resources : Ceilings,
                 nb_resourcesOf : [Classes -> Ceilings],
                 normalize : BOOLEAN,
                 divisor : {None, Some(2)},
                 reservationStartTime : {None},
                 reservationFinishTime : {None},
                 xAxisTermination : {None, Some(5)}]
    /\ locals = [nb_resourcesOf |-> args.nb_resourcesOf]
    /\ calls = <<>>
    /\ i = 1
    /\ IdleTable

SpecBinned == InitBinned /\ [][NextBinned]_vars

(* Inputs of plot_mstates: the default palette, a palette of five distinct *)
(* colours and a palette of the wrong size.                                *)
Palettes == {None, Some(<<"c1", "c2", "c3", "c4", "c5">>),
             Some(<<"c1", "c2", "c3", "c4">>)}

InitMstates ==
    /\ pc = "plot_mstates"
    /\ args \in [fn : {"plot_mstates"},
                 mstates_df : [{stack_order[k] : k \in 1..Len(stack_order)}
                                   -> [1..MaxSamples -> {0, 1}]],
                 palette : Palettes,
                 reverse : BOOLEAN]
    /\ locals = <<>>
    /\ calls = <<>>
    /\ i = 1
    /\ IdleTable

SpecMstates == InitMstates /\ [][NextMstates]_vars

(* Inputs of plot_pstates, called directly with a horizon or from          *)
(* plot_gantt_pstates: pseudo-jobs that end or not, that begin before or   *)
(* after the horizon, on one or two machine ranges, and pstate sets that   *)
(* overlap.                                                                *)
PseudoJobRows ==
    {[pstate |-> p, interval_id |-> id, begin |-> t[1], end |-> t[2]] :
        p \in 0..3, id \in {1, 2}, t \in {<<0, 1>>, <<1, Inf>>, <<3, Inf>>}}

PstatesArgs(fn, horizons) ==
    [fn : {fn},
     pseudo_jobs : Tables(PseudoJobRows, MaxPseudoJobs),
     intervals : {<< <<<<0, 1>>>>, <<<<0, 0>>, <<2, 2>>>> >>},
     res_bounds : {<<0, MaxProc>>},
     x_horizon : horizons,
     off_pstates : {None, Some({1})},
     son_pstates : {None, Some({1, 2})},
     soff_pstates : {None, Some({2, 3})}]

PstatesJobRows ==
    [workload_name : {"w"}, jobID : {"1"}, allocated_resources : {{0, 2}},
     submission_time : {0}, starting_time : {0}, execution_time : {2}]

InitPstates ==
    /\ locals = <<>>
    /\ calls = <<>>
    /\ window = <<>>
    /\ \/ /\ args \in PstatesArgs("plot_pstates", {Some(1), Some(2)})
          /\ pc = "plot_pstates"
          /\ i = 1
          /\ IdleTable
       \/ /\ args \in PstatesArgs("plot_gantt_pstates", {None})
          /\ df \in Tables(PstatesJobRows, 1)
          /\ labels = TRUE
          /\ StartGantt

SpecPstates == InitPstates /\ [][NextPstates]_vars

(* Inputs of plot_load: a window end that is not given is None here (the   *)
(* default False of plot_load has the same truth value).                   *)
InitPlotLoad ==
    /\ pc = "plot_load"
    /\ args \in [fn : {"plot_load"},
                 load : [1..MaxSamples -> {1, 2}],
                 mean : {1, 3},
                 nb_resources : Ceilings,
                 normalize : BOOLEAN,
                 power : {None} \cup {Some(c) : c \in [1..MaxSamples -> {2}]},
                 normalize_power : BOOLEAN]
    /\ locals = <<>>
    /\ calls = <<>>
    /\ i = 1
    /\ IdleTable

SpecPlotLoad == InitPlotLoad /\ [][NextPlotLoad]_vars

(* The two renderers that take a window. *)
InitWindow == InitGantt \/ InitPlotLoad
NextWindow == NextGantt \/ NextPlotLoad
SpecWindow == InitWindow /\ [][NextWindow]_vars

(* Inputs of plot_free_resources. *)
InitFree ==
    /\ pc = "plot_free_resources"
    /\ args \in [fn : {"plot_free_resources"},
                 utilisation : [1..MaxSamples -> {0, 1, 2}],
                 nb_resources : {2, 3, 4},
                 normalize : BOOLEAN]
    /\ locals = <<>>
    /\ calls = <<>>
    /\ i = 1
    /\ IdleTable

SpecFree == InitFree /\ [][NextFree]_vars

(* Inputs of plot_fragmentation: no axes, three axes or two. *)
InitFragmentation ==
    /\ pc = "plot_fragmentation"
    /\ args \in [fn : {"plot_fragmentation"},
                 frag : UNION {[1..n -> {1, 2}] : n \in 1..(MaxSamples + 1)},
                 ax : {None, Some(<<"ax0", "ax1", "ax2">>),
                       Some(<<"ax0", "ax1">>)}]
    /\ locals = <<>>
    /\ calls = <<>>
    /\ i = 1
    /\ IdleTable

SpecFragmentation == InitFragmentation /\ [][NextFragmentation]_vars

(* Inputs of plot_job_details: rows given in any order of jobID. *)
DetailRows ==
    [jobID : {1, 2}, submission_time : {0, 1}, waiting_time : {0, 1},
     execution_time : {1}, proc_alloc : {1, 2}]

InitDetails ==
    /\ pc = "plot_job_details"
    /\ args \in [fn : {"plot_job_details"},
                 dataframe : Tables(DetailRows, MaxGanttRows),
                 size : {2},
                 time_offset : {0, 1}]
    /\ locals = <<>>
    /\ calls = <<>>
    /\ i = 1
    /\ IdleTable

SpecDetails == InitDetails /\ [][NextDetails]_vars

-----------------------------------------------------------------------------
(* Properties of map_unique_numbers *)

PairOf(k) == <<df[k].workload_name, df[k].jobID>>
Numbered == 1..Len(unique_numbers)
FirstRow(k) == Min({j \in 1..k : PairOf(j) = PairOf(k)})
PairsUpTo(k) == {PairOf(j) : j \in 1..k}

(* C1: unique_numbers has one entry per row in row order; the first row of *)
(* each distinct (workload_name, jobID) pair gets the next integer of      *)
(* 1, 2, 3, ... in first-occurrence order and every later row of the pair  *)
(* gets the number of the first.                                           *)
C1_FirstOccurrenceNumbering ==
    /\ pc # "map" => Len(unique_numbers) = Len(df)
    /\ \A k \in Numbered :
           unique_numbers[k] = Cardinality(PairsUpTo(FirstRow(k)))

(* C2: two rows receive the same unique_number if and only if they have    *)
(* the same workload_name and the same jobID.                              *)
C2_NumberingIsInjectiveOnPairs ==
    \A j \in Numbered, k \in Numbered :
        (unique_numbers[j] = unique_numbers[k]) <=> (PairOf(j) = PairOf(k))

AllocatedRowsOf(pair) ==
    SortedSeq({k \in 1..Len(df) :
                  PairOf(k) = pair /\ df[k].allocated_resources # {}})

(* C3: the labeled set holds exactly one row per (workload_name, jobID)    *)
(* group with an allocated row, the one at index len(occ)//2 of the        *)
(* group's allocated rows in table order, and nothing else.                *)
C3_LabelIsMiddleAllocatedRowOfPair ==
    pc \in {"plot", "done"} =>
        labeled_jobs =
            {Index(AllocatedRowsOf(g)[(Len(AllocatedRowsOf(g)) \div 2) + 1]) :
                g \in {q \in PairsUpTo(Len(df)) : AllocatedRowsOf(q) # <<>>}}

-----------------------------------------------------------------------------
(* Properties of plot_gantt *)

RectsOf(name) == SelectSeq(artists, LAMBDA r : r.job = name)
Plotted == IF pc = "plot" THEN 1..(i - 1)
           ELSE IF pc = "done" THEN 1..Len(df) ELSE {}

(* The closed ranges of a set of resource indices. *)
Ranges(S) == {itv \in S \X S :
                 /\ itv[1] <= itv[2]
                 /\ \A p \in itv[1]..itv[2] : p \in S
                 /\ (itv[1] - 1) \notin S
                 /\ (itv[2] + 1) \notin S}

GanttSpan(r) == r.y..(r.y + ((r.height10 - 9) \div 10))

(* C7: a plotted job has exactly one rectangle per range [y0, y1] of its   *)
(* interval set, with x = starting_time, width = execution_time, y = y0    *)
(* and height = y1 - y0 + 0.9, and no other rectangle; the spans of its    *)
(* rectangles make up exactly its allocated resources.                     *)
C7_OneRectanglePerRange ==
    \A k \in 1..Len(df) :
        LET rs == RectsOf(Index(k))
            job == df[k]
        IN  IF k \in Plotted
            THEN /\ Len(rs) = Cardinality(Ranges(job.allocated_resources))
                 /\ \A itv \in Ranges(job.allocated_resources) :
                        \E n \in 1..Len(rs) :
                            /\ rs[n].x = job.starting_time
                            /\ rs[n].width = job.execution_time
                            /\ rs[n].y = itv[1]
                            /\ rs[n].height10 = (itv[2] - itv[1]) * 10 + 9
                 /\ UNION {GanttSpan(rs[n]) : n \in 1..Len(rs)}
                        = job.allocated_resources
            ELSE rs = <<>>

C7_Witness ==
    /\ pc = "done"
    /\ \E k \in 1..Len(df) :
           /\ df[k].allocated_resources = {0, 2}
           /\ Len(RectsOf(Index(k))) = 2

AnnotatedRects == {annotations[n].rect : n \in 1..Len(annotations)}
HasAnnotation(k) == \E r \in AnnotatedRects : r.job = Index(k)

(* C8: with labels enabled a rectangle is annotated if and only if its     *)
(* job's row is in the labeled set, so every rectangle of a labeled job is *)
(* annotated once and no rectangle of another occurrence of the same       *)
(* identity is; with labels disabled nothing is annotated.                 *)
C8_AnnotatedIffLabeled ==
    /\ \A n \in 1..Len(artists) :
           (artists[n] \in AnnotatedRects)
               <=> (labels /\ artists[n].job \in labeled_jobs)
    /\ \A r \in AnnotatedRects : \E n \in 1..Len(artists) : artists[n] = r
    /\ Len(annotations) = Cardinality(AnnotatedRects)
    /\ ~labels => annotations = <<>>
    /\ \A j \in Plotted, k \in Plotted :
           (j # k /\ PairOf(j) = PairOf(k))
               => ~(HasAnnotation(j) /\ HasAnnotation(k))

C8_Witness ==
    /\ pc = "done"
    /\ labels
    /\ \E j \in 1..Len(df), k \in 1..Len(df) :
           /\ j # k
           /\ PairOf(j) = PairOf(k)
           /\ Len(RectsOf(Index(j))) = 2
           /\ Len(RectsOf(Index(k))) = 2
           /\ Cardinality({r \in AnnotatedRects : r.job = Index(j)}) = 2
           /\ ~HasAnnotation(k)

DataXlim ==
    <<Min({df[k].submission_time : k \in 1..Len(df)}),
      Max({df[k].starting_time + df[k].execution_time : k \in 1..Len(df)})>>

(* C12: in plot_gantt and in plot_load, when windowStartTime and           *)
(* windowFinishTime are both supplied the x-axis limits after the render   *)
(* are exactly (windowStartTime, windowFinishTime); in plot_gantt, when    *)
(* neither is supplied they are (min submission_time, max of               *)
(* starting_time + execution_time).                                        *)
C12_WindowSetsXlim ==
    (pc = "done" /\ args.fn \in {"plot_gantt", "plot_load"}) =>
        /\ (window[1] # None /\ window[2] # None)
               => xlim = <<window[1][1], window[2][1]>>
        /\ (args.fn = "plot_gantt" /\ window[1] = None /\ window[2] = None)
               => xlim = DataXlim

-----------------------------------------------------------------------------
(* Properties of plot_processor_load *)

Resources == res_bounds[1]..res_bounds[2]

(* Every job has a non-empty allocation inside the resource bounds. *)
RegularJobs ==
    \A k \in 1..Len(df) :
        /\ df[k].allocated_resources # {}
        /\ df[k].allocated_resources \subseteq Resources

(* The sum of execution_time over the first k jobs that hold resource r. *)
RECURSIVE LoadOf(_, _)
LoadOf(k, r) ==
    IF k = 0 THEN 0
    ELSE LoadOf(k - 1, r)
             + (IF r \in df[k].allocated_resources
                THEN df[k].execution_time ELSE 0)

(* C4: load starts at 0 on every resource of the bounds, and after each    *)
(* processed job load[r] is the sum of execution_time over the jobs        *)
(* processed so far whose allocation includes r.                           *)
C4_LoadIsSumOfExecutionTimes ==
    RegularJobs =>
        /\ pc \in {"load", "done"}
        /\ DOMAIN load = Resources
        /\ \A r \in Resources : load[r] = LoadOf(i - 1, r)

C4_Witness ==
    /\ pc = "done"
    /\ RegularJobs
    /\ Len(df) = 2
    /\ df[1].execution_time # df[2].execution_time
    /\ \E r \in Resources, q \in Resources :
           /\ r \in df[1].allocated_resources \cap df[2].allocated_resources
           /\ load[r] = 3
           /\ q \notin df[1].allocated_resources \cup df[2].allocated_resources
           /\ load[q] = 0

LoadSpan(r) == r.x..(r.x + r.width - 1)

(* The jobs whose rectangles are all on the axes: those the loop has been  *)
(* through and, once the call has ended, every job of the table.           *)
Rendered == {k \in 1..Len(df) : k < i \/ pc # "load"}

(* C5: for every job with a non-empty allocation in any job sequence, the  *)
(* rectangles of the job have width >= 1 and the job's execution_time as   *)
(* height, their spans are pairwise disjoint and make up the job's         *)
(* allocation, each sits on the pre-job load of every resource it covers,  *)
(* and no two that are index-adjacent share their base load.               *)
C5_RectanglesAreMaximalEqualLoadRuns ==
    \A k \in {q \in Rendered : df[q].allocated_resources # {}} :
        LET rs == RectsOf(Index(k))
            job == df[k]
        IN  /\ \A n \in 1..Len(rs) :
                   /\ rs[n].width >= 1
                   /\ rs[n].height = job.execution_time
                   /\ \A r \in LoadSpan(rs[n]) : rs[n].y = LoadOf(k - 1, r)
            /\ \A m \in 1..Len(rs), n \in 1..Len(rs) :
                   m # n =>
                       /\ LoadSpan(rs[m]) \cap LoadSpan(rs[n]) = {}
                       /\ rs[m].x + rs[m].width = rs[n].x => rs[m].y # rs[n].y
            /\ UNION {LoadSpan(rs[n]) : n \in 1..Len(rs)}
                   = job.allocated_resources

Covering(r) == SelectSeq(artists, LAMBDA a : r \in LoadSpan(a))

(* C6: on every resource r the load intervals of the rectangles covering   *)
(* r, in job order, tile [0, load[r]]: the first starts at 0, each next    *)
(* starts where the previous ended, and the last ends at load[r].          *)
C6_RectanglesTileTheLoad ==
    RegularJobs =>
        \A r \in Resources :
            LET cs == Covering(r)
            IN  /\ cs = <<>> => load[r] = 0
                /\ cs # <<>> =>
                       /\ cs[1].y = 0
                       /\ cs[Len(cs)].y + cs[Len(cs)].height = load[r]
                /\ \A n \in 1..(Len(cs) - 1) :
                       cs[n + 1].y = cs[n].y + cs[n].height

C6_Witness ==
    /\ pc = "done"
    /\ RegularJobs
    /\ \E r \in Resources, q \in Resources :
           /\ Len(Covering(r)) = 2
           /\ Len(Covering(q)) = 1
           /\ load[r] = 3

(* C16: a job with empty allocated_resources emits no rectangle and leaves *)
(* every load unchanged, the render does not abort, and the jobs after it  *)
(* are processed as if it were absent.                                     *)
C16_EmptyJobIsSkipped ==
    (\A k \in 1..Len(df) : df[k].allocated_resources \subseteq Resources) =>
        /\ pc \in {"load", "done"}
        /\ \A r \in Resources : load[r] = LoadOf(i - 1, r)
        /\ \A k \in 1..(i - 1) :
               df[k].allocated_resources = {} => RectsOf(Index(k)) = <<>>

-----------------------------------------------------------------------------
(* Properties of plot_series_comparison *)

Samples == 1..Len(cmp_df.index)
Missing(k) == cmp_df.y1[k] = NaN \/ cmp_df.y2[k] = NaN
AEqualsB(k) == ~Missing(k) /\ cmp_df.y1[k] = cmp_df.y2[k]
AOverB(k) == ~Missing(k) /\ cmp_df.y1[k] > cmp_df.y2[k]
AUnderB(k) == ~Missing(k) /\ cmp_df.y1[k] < cmp_df.y2[k]

(* C9 as stated: at every sample the red mask is set iff A > B, the green  *)
(* mask iff A < B, neither iff A = B, and never both.                      *)
C9_MasksAreTrichotomy ==
    pc = "done" =>
        \A k \in Samples :
            /\ red[k] <=> AOverB(k)
            /\ green[k] <=> AUnderB(k)
            /\ (~red[k] /\ ~green[k]) <=> AEqualsB(k)
            /\ ~(red[k] /\ green[k])

(* C9 amended: at every sample the red mask is set iff A > B, the green    *)
(* mask iff A < B, never both, and neither iff A = B or the sample has no  *)
(* value of the second series to compare.                                  *)
C9_MasksAreTrichotomyWhereDefined ==
    pc = "done" =>
        \A k \in Samples :
            /\ red[k] <=> AOverB(k)
            /\ green[k] <=> AUnderB(k)
            /\ (~red[k] /\ ~green[k]) <=> (AEqualsB(k) \/ Missing(k))
            /\ ~(red[k] /\ green[k])

C9_Witness ==
    /\ pc = "done"
    /\ \E j \in Samples, k \in Samples, m \in Samples :
           /\ red[j] /\ ~green[j]
           /\ green[k] /\ ~red[k]
           /\ ~red[m] /\ ~green[m] /\ cmp_df.y2[m] = NaN

(* The most recent sample of a series at or before time t. *)
LastSample(serie, t) ==
    LET before == {u \in DOMAIN serie : u <= t}
    IN  IF before = {} THEN NaN ELSE serie[Max(before)]

(* C10: at every time t of the comparison axis the value compared for each *)
(* series is that series' most recent sample at or before t, and every     *)
(* sample time of either series is on the axis.                            *)
C10_ForwardFillOnSharedAxis ==
    pc # "cmp" =>
        /\ \A k \in Samples :
               /\ cmp_df.y1[k] = LastSample(series[1], cmp_df.index[k])
               /\ cmp_df.y2[k] = LastSample(series[2], cmp_df.index[k])
        /\ DOMAIN series[1] \cup DOMAIN series[2]
               \subseteq {cmp_df.index[k] : k \in Samples}

-----------------------------------------------------------------------------
(* Properties of plot_series *)

(* C11: a series_type outside available_series ends in AttributeError, a   *)
(* supported one other than "waiting_time" in RuntimeError, in both cases  *)
(* before any call reaches the axes; only "waiting_time" draws.            *)
C11_SeriesTypeErrors ==
    /\ args.series_type \notin {"bonded_slowdown", "waiting_time", "all"}
           => pc \in {"plot_series", "AttributeError"} /\ calls = <<>>
    /\ args.series_type \in {"bonded_slowdown", "all"}
           => pc \in {"plot_series", "RuntimeError"} /\ calls = <<>>
    /\ args.series_type = "waiting_time"
           => pc \in {"plot_series", "waiting_time", "done"}
    /\ pc = "done" => Len(calls) = Len(args.jobsets) + 3

C11_Witness ==
    /\ pc = "RuntimeError"
    /\ args.series_type = "bonded_slowdown"
    /\ args.jobsets # <<>>
    /\ calls = <<>>

-----------------------------------------------------------------------------
(* Properties of plot_gantt_general_shape *)

AllShapeRows ==
    UNION {{args.jobset_list[j].df[k] : k \in 1..Len(args.jobset_list[j].df)} :
              j \in 1..Len(args.jobset_list)}

(* C15: after the jobsets are processed the x-axis limits are the minimum  *)
(* submission_time and the maximum finish_time over all jobsets, also when *)
(* a boundary value is 0.                                                  *)
C15_LimitsCoverEveryJobset ==
    pc = "done" =>
        xlim = <<Min({row.submission_time : row \in AllShapeRows}),
                 Max({row.finish_time : row \in AllShapeRows})>>

-----------------------------------------------------------------------------
(* Properties of plot_binned_load *)

SameFrac(p, q) == p[1] * q[2] = q[1] * p[2]

(* The ceiling of a class: the supplied value, else the maximum of the     *)
(* class's load series.                                                    *)
ClaimedCeiling(c) ==
    IF args.nb_resourcesOf[c] # None THEN args.nb_resourcesOf[c][1]
    ELSE MaxOf(args.load[c])

(* C13: with normalize, for every combination of supplied and omitted      *)
(* nb_resources arguments, each class's load series and mean are divided   *)
(* by the class's ceiling: the supplied value when there is one, the       *)
(* maximum of the class's load series otherwise.                           *)
C13_NormalizedByClassCeiling ==
    args.normalize =>
        /\ pc # "TypeError"
        /\ pc = "divisor" =>
               \A c \in Classes :
                   /\ \A k \in 1..Len(args.load[c]) :
                          SameFrac(locals.load[c][k],
                                   <<args.load[c][k], ClaimedCeiling(c)>>)
                   /\ SameFrac(locals.mean[c],
                               <<args.mean[c], ClaimedCeiling(c)>>)

-----------------------------------------------------------------------------
(* Properties of plot_mstates *)

(* The position of a state in the unreversed order. *)
UnreversedIndex(state) ==
    CHOOSE j \in 1..Len(stack_order) : stack_order[j] = state

(* The position of a state in the order the bands are drawn in. *)
EffectiveIndex(state) ==
    IF args.reverse THEN Len(stack_order) + 1 - UnreversedIndex(state)
    ELSE UnreversedIndex(state)

(* The state drawn at position k. *)
StateAt(k) ==
    IF args.reverse THEN stack_order[Len(stack_order) + 1 - k]
    ELSE stack_order[k]

RECURSIVE SumBelow(_, _)
(* The sum at sample t of the series drawn before position k. *)
SumBelow(k, t) ==
    IF k <= 1 THEN 0
    ELSE SumBelow(k - 1, t) + args.mstates_df[StateAt(k - 1)][t]

GivenPalette == IF args.palette = None THEN DefaultPalette ELSE args.palette[1]

Bands == {k \in 1..Len(calls) : calls[k].call = "fill_between"}

(* C14: the k-th band is the state at position k of the effective order,   *)
(* it spans from the sum of the series before it to that sum plus its own  *)
(* series, so the last band tops at the sum of the five series; and each   *)
(* state has the colour and alpha of its index in the unreversed order,    *)
(* whatever reverse is.                                                    *)
C14_BandsStackInEffectiveOrder ==
    /\ \A k \in Bands :
           LET state == calls[k].label
           IN  /\ state \in DOMAIN args.mstates_df
               /\ EffectiveIndex(state) = k
               /\ \A t \in 1..MaxSamples :
                      /\ calls[k].y1[t] = SumBelow(k, t)
                      /\ calls[k].y2[t]
                             = SumBelow(k, t) + args.mstates_df[state][t]
               /\ calls[k].facecolor = GivenPalette[UnreversedIndex(state)]
               /\ calls[k].alpha = alphas10[UnreversedIndex(state)]
    /\ pc = "done" =>
           /\ Bands = 1..Len(stack_order)
           /\ \A t \in 1..MaxSamples :
                  calls[Len(stack_order)].y2[t]
                      = SumBelow(Len(stack_order) + 1, t)

(* The reversed stack is drawn to its end with every series positive at    *)
(* the first sample: five bands one above the other, computing first.      *)
C14_Witness ==
    /\ pc = "done"
    /\ args.reverse
    /\ args.palette = Some(<<"c1", "c2", "c3", "c4", "c5">>)
    /\ \A s \in DOMAIN args.mstates_df : args.mstates_df[s][1] = 1
    /\ calls[1].label = "nb_computing"
    /\ calls[1].facecolor = "c5"
    /\ calls[5].label = "nb_sleeping"
    /\ calls[5].y1[1] = 4
    /\ calls[5].y2[1] = 5

-----------------------------------------------------------------------------
(* Properties of plot_pstates *)

(* The rectangles drawn for the pseudo-job of row k. *)
PstateRectsOf(k) ==
    {n \in 1..Len(artists) :
        "label" \in DOMAIN artists[n] /\ artists[n].job = Index(k)}

(* The rows of the pseudo-job table the loop has been through. *)
PseudoJobsDone ==
    IF pc = "pseudo_jobs" THEN 1..(i - 1)
    ELSE IF pc = "done" THEN 1..Len(args.pseudo_jobs) ELSE {}

(* C17: a pseudo-job is drawn iff its pstate is in the off, switch-on or   *)
(* switch-off set, with the colour of the first of these sets it is in,    *)
(* one rectangle per machine range of its interval list; every rectangle   *)
(* spans from begin to min(end, x_horizon), has a non-negative width and   *)
(* lies inside [begin, x_horizon].                                         *)
C17_PstateRectanglesInsideHorizon ==
    args.fn \in {"plot_pstates", "plot_gantt_pstates"} =>
        \A k \in PseudoJobsDone :
            LET job == args.pseudo_jobs[k]
                off == SetOrEmpty(args.off_pstates)
                son == SetOrEmpty(args.son_pstates)
                soff == SetOrEmpty(args.soff_pstates)
                drawn == job.pstate \in off \cup son \cup soff
                interval_list == args.intervals[job.interval_id]
                color == IF job.pstate \in off THEN "#000000"
                         ELSE IF job.pstate \in son THEN "#56ae6c"
                         ELSE "#ba495b"
            IN  /\ Cardinality(PstateRectsOf(k))
                       = (IF drawn THEN Len(interval_list) ELSE 0)
                /\ drawn =>
                       \A m \in 1..Len(interval_list) :
                           \E n \in PstateRectsOf(k) :
                               /\ artists[n].y = interval_list[m][1]
                               /\ artists[n].height10 =
                                      (interval_list[m][2]
                                           - interval_list[m][1]) * 10 + 9
                /\ \A n \in PstateRectsOf(k) :
                       /\ artists[n].color = color
                       /\ artists[n].x = job.begin
                       /\ artists[n].x + artists[n].width
                              = Min({job.end, locals.x_horizon})
                       /\ artists[n].width >= 0
                       /\ artists[n].x + artists[n].width <= locals.x_horizon
                       /\ job.begin <= Min({job.end, locals.x_horizon})

====
